---- MODULE Spec2Model ----
(***************************************************************************)
(* Connector lifecycle of two benthos connectors:                          *)
(*   - the AMQP output      (package output, type AMQP)                    *)
(*   - the Websocket input  (lib/input/reader/websocket.go)                *)
(* The AMQP output is a goroutine (loop) racing with CloseAsync callers,   *)
(* the upstream that feeds it Transactions and the broker.  The Websocket  *)
(* input is a lock-protected handle used by Connect, Read and CloseAsync.  *)
(***************************************************************************)
EXTENDS Integers, Sequences, FiniteSets, TLC

\* ------------------------------------------------------------------ bounds
MaxTx == 2          \* Transactions the upstream offers
MaxParts == 2       \* parts of one Transaction's payload
MaxConns == 2       \* broker connections amqp.Dial can hand out
MaxCount == 2       \* metric counters saturate here
MaxClosers == 2     \* goroutines calling AMQP.CloseAsync
MaxStreams == 2     \* distinct Transaction channels given to StartReceiving
MaxWsDials == 3     \* websocket sessions the dialer can hand out

Nil == 0
ErrNil == <<"nil">>
ErrNoAck == <<"ErrNoAck">>
ErrTimeout == <<"ErrTimeout">>
ErrAlreadyStarted == <<"ErrAlreadyStarted">>
ErrNotConnected == <<"ErrNotConnected">>

Txs == 1..MaxTx
Closers == 1..MaxClosers
Streams == 1..MaxStreams

\* the error value returned by amqpChan.Publish for part k of Transaction t
PublishErr(t, k) == <<"PublishErr", t, k>>

Incr(c) == IF c < MaxCount THEN c + 1 ELSE c

VARIABLES
    \* ---- AMQP struct
    running,          \* int32 flag
    conn,             \* *amqp.Connection        (Nil or a connection id)
    amqpChan,         \* *amqp.Channel           (Nil or the id of its connection)
    amqpConfirmChan,  \* confirmation channel    (Nil or the id of the channel it is armed on)
    transactions,     \* <-chan types.Transaction (Nil or a stream id)
    closedChan,       \* number of close(a.closedChan) executed
    closeChan,        \* number of close(a.closeChan) executed
    \* ---- loop goroutine
    loops,            \* goroutines started by "go a.loop()"
    pc,               \* position of the loop
    ts,               \* the Transaction in hand (0: none)
    part,             \* index of the range over ts.Payload.GetAll()
    err,              \* the local err
    \* ---- metrics (the two reconnect counters; the other counters of the
    \* loop are write-only and are left out)
    mReconErr, mReconSucc,
    \* ---- broker / upstream
    nextConn,         \* connections dialed so far
    opened,           \* connections dialed and not yet Close()d
    sent,             \* Transactions taken from the stream so far
    nparts,           \* number of parts of the Transaction in hand
    streamClosed,     \* the upstream closed the stream
    \* ---- callers
    cpc,              \* position of each CloseAsync caller
    closeCalls,       \* CloseAsync calls made so far
    lateClose,        \* CloseAsync was called after the exit block's store at 162
    ret,              \* the last return of StartReceiving / WaitForClose
    \* ---- observation
    attempts,         \* the Publish calls made for ts, in order
    results,          \* the Results written to the ResponseChan of ts
    nacked,           \* the part of ts whose confirmation was negative (0: none)
    lastNackChan,     \* channel on which the previous Transaction was nacked
    initFails,        \* connect() failures before the first success
    \* ---- Websocket struct and its callers
    client,           \* *websocket.Conn (Nil or a session id)
    wsNext,           \* sessions dialed so far
    wsClosed,         \* sessions on which Close() was called
    wsCloseCalled,    \* Websocket.CloseAsync has been called
    rpc,              \* position of the Read caller
    rclient,          \* Read's local "client"
    rdResult,         \* what the last Read returned
    rdAttempted,      \* the last Read called client.ReadMessage
    wcResult,         \* what the last Websocket.Connect returned
    wcDials,          \* Dial calls made by the last Websocket.Connect
    wsWfcResult,      \* what the last Websocket.WaitForClose returned
    wsAckResult       \* what the last Websocket.Acknowledge returned

amqpVars == <<running, conn, amqpChan, amqpConfirmChan, transactions,
              closedChan, closeChan, loops, pc, ts, part, err,
              mReconErr, mReconSucc,
              nextConn, opened, sent, nparts, streamClosed,
              cpc, closeCalls, lateClose, ret,
              attempts, results, nacked, lastNackChan, initFails>>

wsVars == <<client, wsNext, wsClosed, wsCloseCalled, rpc, rclient, rdResult, rdAttempted,
            wcResult, wcDials, wsWfcResult, wsAckResult>>

vars == <<amqpVars, wsVars>>

sessionVars == <<conn, amqpChan, amqpConfirmChan, nextConn, opened>>
metricVars == <<mReconErr, mReconSucc>>
txVars == <<ts, part, err>>
upVars == <<sent, nparts, streamClosed>>
callVars == <<cpc, closeCalls, lateClose, ret>>
obsVars == <<attempts, results, nacked, lastNackChan, initFails>>
lifeVars == <<running, transactions, closedChan, closeChan, loops>>

\* ------------------------------------------------------------ construction
\* NewAMQP: running 1, both signal channels open, no session, no stream.
InitAMQP ==
    /\ running = 1
    /\ conn = Nil /\ amqpChan = Nil /\ amqpConfirmChan = Nil
    /\ transactions = Nil
    /\ closedChan = 0 /\ closeChan = 0
    /\ loops = 0 /\ pc = "idle"
    /\ ts = 0 /\ part = 0 /\ err = ErrNil
    /\ mReconErr = 0 /\ mReconSucc = 0
    /\ nextConn = 0 /\ opened = {}
    /\ sent = 0 /\ nparts = 0 /\ streamClosed = FALSE
    /\ cpc = [c \in Closers |-> "idle"] /\ closeCalls = 0 /\ lateClose = FALSE
    /\ ret = <<"none", ErrNil>>
    /\ attempts = <<>>
    /\ results = <<>>
    /\ nacked = 0
    /\ lastNackChan = Nil
    /\ initFails = 0

\* NewWebsocket: no session stored.
InitWS ==
    /\ client = Nil /\ wsNext = 0 /\ wsClosed = {} /\ wsCloseCalled = FALSE
    /\ rpc = "idle" /\ rclient = Nil
    /\ rdResult = <<"none">> /\ rdAttempted = FALSE
    /\ wcResult = <<"none">> /\ wcDials = 0
    /\ wsWfcResult = <<"none">> /\ wsAckResult = <<"none">>

Init == InitAMQP /\ InitWS

\* ------------------------------------------------------ AMQP.connect (102)
\* The step of connect() that failed, or "ok".
ConnectOutcomes == {"dial", "channel", "declare", "confirm", "ok"}

connect(o) ==
    /\ (o # "dial") => nextConn < MaxConns
    /\ IF o = "dial"
       THEN /\ conn' = Nil
            /\ UNCHANGED <<amqpChan, amqpConfirmChan, nextConn, opened>>
       ELSE /\ conn' = nextConn + 1
            /\ nextConn' = nextConn + 1
            /\ opened' = opened \cup {nextConn + 1}
            /\ amqpChan' = IF o = "channel" THEN Nil ELSE nextConn + 1
            /\ amqpConfirmChan' = IF o = "ok" THEN nextConn + 1
                                  ELSE amqpConfirmChan

\* --------------------------------------------------- AMQP.disconnect (135)
\* closeOk: whether conn.Close() returned nil.  Close() shuts the connection
\* down also when it reports an error.
disconnect(closeOk) ==
    /\ amqpChan' = Nil
    /\ IF conn # Nil
       THEN /\ opened' = opened \ {conn}
            /\ conn' = IF closeOk THEN Nil ELSE conn
       ELSE /\ closeOk
            /\ UNCHANGED <<conn, opened>>
    /\ UNCHANGED <<amqpConfirmChan, nextConn>>

\* ------------------------------------------------ AMQP.StartReceiving (259)
StartReceivingNoGuard(s) ==
    /\ transactions' = s
    /\ loops' = loops + 1
    /\ pc' = "entry"
    /\ ret' = <<"StartReceiving", ErrNil>>
    /\ UNCHANGED <<running, closedChan, closeChan, cpc, closeCalls, lateClose>>
    /\ UNCHANGED <<sessionVars, metricVars, txVars, upVars, obsVars, wsVars>>

StartReceiving(s) ==
    /\ IF transactions # Nil
       THEN /\ ret' = <<"StartReceiving", ErrAlreadyStarted>>
            /\ UNCHANGED <<transactions, loops, pc>>
       ELSE /\ transactions' = s
            /\ loops' = loops + 1
            /\ pc' = "entry"
            /\ ret' = <<"StartReceiving", ErrNil>>
    /\ UNCHANGED <<running, closedChan, closeChan, cpc, closeCalls, lateClose>>
    /\ UNCHANGED <<sessionVars, metricVars, txVars, upVars, obsVars, wsVars>>

\* ---------------------------------------------------------- AMQP.loop (151)
\* the loop's steps that touch nothing but its own position
Goto(from, to) ==
    /\ pc = from
    /\ pc' = to
    /\ UNCHANGED <<lifeVars, sessionVars, metricVars, txVars, upVars,
                   callVars, obsVars, wsVars>>

\* 161-169: the deferred block is registered, the goroutine runs
LoopEntry == Goto("entry", "connect0")

\* 171-182: the first connection; failures are logged, not counted
Connect0Counting(o) ==
    /\ pc = "connect0"
    /\ connect(o)
    /\ IF o = "ok"
       THEN pc' = "check" /\ UNCHANGED <<initFails, mReconErr>>
       ELSE /\ pc' = "backoff0"
            /\ initFails' = Incr(initFails)
            /\ mReconErr' = Incr(mReconErr)
    /\ UNCHANGED <<mReconSucc, lifeVars, txVars, upVars, callVars, wsVars>>
    /\ UNCHANGED <<attempts, results, nacked, lastNackChan>>

Connect0(o) ==
    /\ pc = "connect0"
    /\ connect(o)
    /\ IF o = "ok"
       THEN pc' = "check" /\ UNCHANGED initFails
       ELSE pc' = "backoff0" /\ initFails' = Incr(initFails)
    /\ UNCHANGED <<metricVars, lifeVars, txVars, upVars, callVars, wsVars>>
    /\ UNCHANGED <<attempts, results, nacked, lastNackChan>>

\* 174-178: a fresh one-second timer is never ready when the select is
\* entered, so the timer case is taken only while closeChan is still open.
Backoff0Timer == closeChan = 0 /\ Goto("backoff0", "connect0")

Backoff0Close == closeChan > 0 /\ Goto("backoff0", "deferStore")

\* 186: for atomic.LoadInt32(&a.running) == 1
LoopCheck == Goto("check", IF running = 1 THEN "recon" ELSE "deferStore")

\* 187: for a.amqpChan == nil  (condition false)
ReconSkip == amqpChan # Nil /\ Goto("recon", "recv")

\* 188-199: one iteration of the reconnect loop
Reconnect(o) ==
    /\ pc = "recon"
    /\ amqpChan = Nil
    /\ connect(o)
    /\ IF o = "ok"
       THEN /\ mReconSucc' = Incr(mReconSucc)
            /\ pc' = "recon"
            /\ UNCHANGED mReconErr
       ELSE /\ mReconErr' = Incr(mReconErr)
            /\ pc' = "backoffR"
            /\ UNCHANGED mReconSucc
    /\ UNCHANGED <<lifeVars, txVars, upVars, callVars, obsVars, wsVars>>

\* 191-195
BackoffRTimer == closeChan = 0 /\ Goto("backoffR", "recon")

BackoffRClose == closeChan > 0 /\ Goto("backoffR", "deferStore")

\* 203-207, 212-214: a Transaction with n parts arrives on the stream
RecvTx(n) ==
    /\ pc = "recv"
    /\ ~streamClosed
    /\ sent < MaxTx
    /\ sent' = sent + 1
    /\ nparts' = n
    /\ ts' = sent + 1
    /\ part' = 1
    /\ err' = ErrNil
    /\ pc' = "publish"
    /\ attempts' = <<>>
    /\ results' = <<>>
    /\ nacked' = 0
    /\ lastNackChan' = IF nacked > 0 THEN attempts[nacked][3] ELSE Nil
    /\ UNCHANGED <<initFails, streamClosed>>
    /\ UNCHANGED <<lifeVars, sessionVars, metricVars, callVars, wsVars>>

\* 204-207: the stream was closed by the upstream (open = false)
RecvClosed == streamClosed /\ Goto("recv", "deferStore")

\* 208-209
RecvClose == closeChan > 0 /\ Goto("recv", "deferStore")

\* the upstream closes the Transaction stream
CloseStream ==
    /\ ~streamClosed
    /\ streamClosed' = TRUE
    /\ UNCHANGED <<sent, nparts>>
    /\ UNCHANGED <<pc, lifeVars, sessionVars, metricVars, txVars,
                   callVars, obsVars, wsVars>>

\* 214 (range exhausted, or break at 246): on to the Result
PartsDoneNoResult == part > nparts /\ Goto("publish", "check")

PartsDone == part > nparts /\ Goto("publish", "respond")

\* 215-247: amqpChan.Publish of the current part; pubOk: it returned nil.
\* On an error the session is dropped and the range is left.
PublishNoBreak(pubOk, closeOk) ==
    /\ pc = "publish"
    /\ part <= nparts
    /\ attempts' = Append(attempts,
                      <<part, IF pubOk THEN "ok" ELSE "err", amqpChan>>)
    /\ IF pubOk
       THEN /\ closeOk
            /\ pc' = "confirm"
            /\ UNCHANGED <<sessionVars, err, part>>
       ELSE /\ err' = PublishErr(ts, part)
            /\ disconnect(closeOk)
            /\ part' = part + 1
            /\ pc' = "publish"
    /\ UNCHANGED <<ts, results, nacked, lastNackChan, initFails>>
    /\ UNCHANGED <<lifeVars, metricVars, upVars, callVars, wsVars>>

PublishErrKeepSession(pubOk, closeOk) ==
    /\ pc = "publish"
    /\ part <= nparts
    /\ closeOk
    /\ attempts' = Append(attempts,
                      <<part, IF pubOk THEN "ok" ELSE "err", amqpChan>>)
    /\ IF pubOk
       THEN pc' = "confirm" /\ UNCHANGED err
       ELSE pc' = "respond" /\ err' = PublishErr(ts, part)
    /\ UNCHANGED <<ts, part, sessionVars, results, nacked, lastNackChan, initFails>>
    /\ UNCHANGED <<lifeVars, metricVars, upVars, callVars, wsVars>>

Publish(pubOk, closeOk) ==
    /\ pc = "publish"
    /\ part <= nparts
    /\ attempts' = Append(attempts,
                      <<part, IF pubOk THEN "ok" ELSE "err", amqpChan>>)
    /\ IF pubOk
       THEN /\ closeOk
            /\ pc' = "confirm"
            /\ UNCHANGED <<sessionVars, err, part>>
       ELSE /\ err' = PublishErr(ts, part)
            /\ disconnect(closeOk)
            /\ pc' = "respond"
            /\ UNCHANGED part
    /\ UNCHANGED <<ts, results, nacked, lastNackChan, initFails>>
    /\ UNCHANGED <<lifeVars, metricVars, upVars, callVars, wsVars>>

\* 232-235, 242-247: the broker's confirmation arrives on amqpConfirmChan
ConfirmRecvDropSession(ack) ==
    /\ pc = "confirm"
    /\ amqpConfirmChan # Nil
    /\ IF ack
       THEN /\ part' = part + 1
            /\ pc' = "publish"
            /\ UNCHANGED <<err, nacked, sessionVars>>
       ELSE /\ err' = ErrNoAck
            /\ nacked' = part
            /\ disconnect(TRUE)
            /\ pc' = "respond"
            /\ UNCHANGED part
    /\ UNCHANGED <<ts, attempts, results, lastNackChan, initFails>>
    /\ UNCHANGED <<lifeVars, metricVars, upVars, callVars, wsVars>>

ConfirmRecvNackContinue(ack) ==
    /\ pc = "confirm"
    /\ amqpConfirmChan # Nil
    /\ IF ack
       THEN /\ part' = part + 1
            /\ pc' = "publish"
            /\ UNCHANGED <<err, nacked>>
       ELSE /\ err' = ErrNoAck
            /\ nacked' = part
            /\ pc' = "check"
            /\ UNCHANGED part
    /\ UNCHANGED <<ts, attempts, results, lastNackChan, initFails>>
    /\ UNCHANGED <<lifeVars, sessionVars, metricVars, upVars, callVars, wsVars>>

ConfirmRecv(ack) ==
    /\ pc = "confirm"
    /\ amqpConfirmChan # Nil
    /\ IF ack
       THEN /\ part' = part + 1
            /\ pc' = "publish"
            /\ UNCHANGED <<err, nacked>>
       ELSE /\ err' = ErrNoAck
            /\ nacked' = part
            /\ pc' = "respond"
            /\ UNCHANGED part
    /\ UNCHANGED <<ts, attempts, results, lastNackChan, initFails>>
    /\ UNCHANGED <<lifeVars, sessionVars, metricVars, upVars, callVars, wsVars>>

\* 236-237
ConfirmClose == closeChan > 0 /\ Goto("confirm", "deferStore")

\* 251: the upstream takes the Result from ts.ResponseChan
WriteResultAgain ==
    /\ pc = "respond"
    /\ results' = Append(results, err)
    /\ pc' = IF results = <<>> THEN "respond" ELSE "check"
    /\ UNCHANGED <<attempts, nacked, lastNackChan, initFails>>
    /\ UNCHANGED <<lifeVars, sessionVars, metricVars, txVars, upVars,
                   callVars, wsVars>>

WriteResult ==
    /\ pc = "respond"
    /\ results' = Append(results, err)
    /\ pc' = "check"
    /\ UNCHANGED <<attempts, nacked, lastNackChan, initFails>>
    /\ UNCHANGED <<lifeVars, sessionVars, metricVars, txVars, upVars,
                   callVars, wsVars>>

\* 252-253
RespondClose == closeChan > 0 /\ Goto("respond", "deferStore")

\* 162: atomic.StoreInt32(&a.running, 0)
DeferStoreForgotten ==
    /\ pc = "deferStore"
    /\ pc' = "deferClose"
    /\ UNCHANGED <<running, transactions, closedChan, closeChan, loops>>
    /\ UNCHANGED <<sessionVars, metricVars, txVars, upVars,
                   callVars, obsVars, wsVars>>

DeferStore ==
    /\ pc = "deferStore"
    /\ running' = 0
    /\ pc' = "deferClose"
    /\ UNCHANGED <<transactions, closedChan, closeChan, loops>>
    /\ UNCHANGED <<sessionVars, metricVars, txVars, upVars,
                   callVars, obsVars, wsVars>>

\* 164-167: a.disconnect(); close(a.closedChan)
DeferCloseForgotten(closeOk) ==
    /\ pc = "deferClose"
    /\ disconnect(closeOk)
    /\ pc' = "done"
    /\ UNCHANGED <<running, transactions, closedChan, closeChan, loops>>
    /\ UNCHANGED <<metricVars, txVars, upVars, callVars, obsVars, wsVars>>

DeferClose(closeOk) ==
    /\ pc = "deferClose"
    /\ disconnect(closeOk)
    /\ closedChan' = closedChan + 1
    /\ pc' = "done"
    /\ UNCHANGED <<running, transactions, closeChan, loops>>
    /\ UNCHANGED <<metricVars, txVars, upVars, callVars, obsVars, wsVars>>

\* ---------------------------------------------------- AMQP.CloseAsync (269)
\* 270: the compare-and-swap
CloseAsyncNoCAS(c) ==
    /\ cpc[c] = "idle"
    /\ closeChan < 2
    /\ closeCalls' = Incr(closeCalls)
    /\ lateClose' = (lateClose \/ pc \in {"deferClose", "done"})
    /\ running' = 0
    /\ cpc' = [cpc EXCEPT ![c] = "close"]
    /\ UNCHANGED <<ret, transactions, closedChan, closeChan, loops>>
    /\ UNCHANGED <<pc, sessionVars, metricVars, txVars, upVars, obsVars, wsVars>>

CloseAsync(c) ==
    /\ cpc[c] = "idle"
    /\ closeCalls' = Incr(closeCalls)
    /\ lateClose' = (lateClose \/ pc \in {"deferClose", "done"})
    /\ IF running = 1
       THEN running' = 0 /\ cpc' = [cpc EXCEPT ![c] = "close"]
       ELSE UNCHANGED <<running, cpc>>
    /\ UNCHANGED <<ret, transactions, closedChan, closeChan, loops>>
    /\ UNCHANGED <<pc, sessionVars, metricVars, txVars, upVars, obsVars, wsVars>>

\* 271: close(a.closeChan)
CloseAsyncClose(c) ==
    /\ cpc[c] = "close"
    /\ closeChan' = closeChan + 1
    /\ cpc' = [cpc EXCEPT ![c] = "idle"]
    /\ UNCHANGED <<closeCalls, lateClose, ret, running, transactions, closedChan, loops>>
    /\ UNCHANGED <<pc, sessionVars, metricVars, txVars, upVars, obsVars, wsVars>>

\* -------------------------------------------------- AMQP.WaitForClose (276)
\* timedOut: the timer case of the select is the one taken.  The closedChan
\* case can be taken only once closedChan is closed.
WaitForCloseUnchecked(timedOut) ==
    /\ ret' = <<"WaitForClose", IF timedOut THEN ErrTimeout ELSE ErrNil>>
    /\ UNCHANGED <<cpc, closeCalls, lateClose>>
    /\ UNCHANGED <<pc, lifeVars, sessionVars, metricVars, txVars, upVars,
                   obsVars, wsVars>>

WaitForClose(timedOut) ==
    /\ (~timedOut) => closedChan > 0
    /\ ret' = <<"WaitForClose", IF timedOut THEN ErrTimeout ELSE ErrNil>>
    /\ UNCHANGED <<cpc, closeCalls, lateClose>>
    /\ UNCHANGED <<pc, lifeVars, sessionVars, metricVars, txVars, upVars,
                   obsVars, wsVars>>

\* ------------------------------------------------------------ AMQP system
\* steps the loop goroutine takes by itself
LoopInternal ==
    \/ LoopEntry
    \/ \E o \in ConnectOutcomes : Connect0(o)
    \/ Backoff0Timer
    \/ Backoff0Close
    \/ LoopCheck
    \/ ReconSkip
    \/ \E o \in ConnectOutcomes : Reconnect(o)
    \/ BackoffRTimer
    \/ BackoffRClose
    \/ RecvClosed
    \/ RecvClose
    \/ PartsDone
    \/ \E pubOk, closeOk \in BOOLEAN : Publish(pubOk, closeOk)
    \/ ConfirmClose
    \/ RespondClose
    \/ DeferStore
    \/ \E closeOk \in BOOLEAN : DeferClose(closeOk)

\* steps of the loop that need the upstream or the broker to act
TakeTx == \E n \in 0..MaxParts : RecvTx(n)

Confirmation == \E ack \in BOOLEAN : ConfirmRecv(ack)

Next ==
    \/ \E s \in Streams : StartReceiving(s)
    \/ LoopInternal
    \/ TakeTx
    \/ Confirmation
    \/ WriteResult
    \/ CloseStream
    \/ \E c \in Closers : CloseAsync(c)
    \/ \E c \in Closers : CloseAsyncClose(c)
    \/ \E timedOut \in BOOLEAN : WaitForClose(timedOut)

Spec == Init /\ [][Next]_vars

\* the loop goroutine is scheduled and a CloseAsync that won the
\* compare-and-swap goes on to close closeChan; nothing is assumed of the
\* broker or of the upstream
LiveSpec ==
    Spec /\ WF_vars(LoopInternal) /\ \A c \in Closers : WF_vars(CloseAsyncClose(c))

\* moreover the broker confirms what was published and the upstream reads
\* the Result it is offered
FairSpec == LiveSpec /\ WF_vars(Confirmation) /\ WF_vars(WriteResult)

\* ------------------------------------------------- Websocket.Connect (91)
\* The whole of Connect runs under the lock.  signOk: conf.Sign returned
\* nil; dialOk: DefaultDialer.Dial returned a session.
WsSignErr == <<"SignErr">>
WsDialErr == <<"DialErr">>

WsConnectRedial(signOk, dialOk) ==
    /\ dialOk => wsNext < MaxWsDials
    /\ IF ~signOk
       THEN /\ wcResult' = WsSignErr
            /\ wcDials' = 0
            /\ UNCHANGED <<client, wsNext>>
       ELSE /\ wcDials' = 1
            /\ IF dialOk
               THEN /\ client' = wsNext + 1
                    /\ wsNext' = wsNext + 1
                    /\ wcResult' = ErrNil
               ELSE /\ wcResult' = WsDialErr
                    /\ UNCHANGED <<client, wsNext>>
    /\ UNCHANGED <<wsClosed, rpc, rclient, rdResult, rdAttempted,
                   wsWfcResult, wsAckResult, amqpVars,
                   wsCloseCalled>>

WsConnect(signOk, dialOk) ==
    /\ dialOk => wsNext < MaxWsDials
    /\ IF client # Nil
       THEN /\ wcResult' = ErrNil
            /\ wcDials' = 0
            /\ UNCHANGED <<client, wsNext>>
       ELSE IF ~signOk
       THEN /\ wcResult' = WsSignErr
            /\ wcDials' = 0
            /\ UNCHANGED <<client, wsNext>>
       ELSE /\ wcDials' = 1
            /\ IF dialOk
               THEN /\ client' = wsNext + 1
                    /\ wsNext' = wsNext + 1
                    /\ wcResult' = ErrNil
               ELSE /\ wcResult' = WsDialErr
                    /\ UNCHANGED <<client, wsNext>>
    /\ UNCHANGED <<wsClosed, rpc, rclient, rdResult, rdAttempted,
                   wsWfcResult, wsAckResult, amqpVars,
                   wsCloseCalled>>

\* --------------------------------------------------- Websocket.Read (119)
\* Read is entered
WsReadCall ==
    /\ rpc = "idle"
    /\ rpc' = "getWS"
    /\ UNCHANGED <<client, wsNext, wsClosed, rclient, rdResult, rdAttempted,
                   wcResult, wcDials, wsWfcResult, wsAckResult, amqpVars,
                   wsCloseCalled>>

\* 120-123: client := w.getWS() (81-86), nil check
WsGetWS ==
    /\ rpc = "getWS"
    /\ rclient' = client
    /\ rdAttempted' = FALSE
    /\ IF client = Nil
       THEN rdResult' = ErrNotConnected /\ rpc' = "idle"
       ELSE rpc' = "readMessage" /\ UNCHANGED rdResult
    /\ UNCHANGED <<client, wsNext, wsClosed,
                   wcResult, wcDials, wsWfcResult, wsAckResult, amqpVars,
                   wsCloseCalled>>

\* 125, 134: client.ReadMessage(); ok: it returned data.  A session that
\* was Close()d yields no more data.
WsReadMessage(ok) ==
    /\ rpc = "readMessage"
    /\ ok => rclient \notin wsClosed
    /\ rdAttempted' = TRUE
    /\ IF ok
       THEN rdResult' = <<"msg", rclient>> /\ rpc' = "idle"
       ELSE rpc' = "clear" /\ UNCHANGED rdResult
    /\ UNCHANGED <<client, wsNext, wsClosed, rclient,
                   wcResult, wcDials, wsWfcResult, wsAckResult, amqpVars,
                   wsCloseCalled>>

\* 126-131: the handle is dropped under the lock, NotConnected returned
WsReadFailKeep ==
    /\ rpc = "clear"
    /\ rdResult' = ErrNotConnected
    /\ rpc' = "idle"
    /\ UNCHANGED <<client, wsNext, wsClosed, rclient, rdAttempted,
                   wcResult, wcDials, wsWfcResult, wsAckResult, amqpVars,
                   wsCloseCalled>>

WsReadFail ==
    /\ rpc = "clear"
    /\ client' = Nil
    /\ rdResult' = ErrNotConnected
    /\ rpc' = "idle"
    /\ UNCHANGED <<wsNext, wsClosed, rclient, rdAttempted,
                   wcResult, wcDials, wsWfcResult, wsAckResult, amqpVars,
                   wsCloseCalled>>

\* --------------------------------------------- Websocket.Acknowledge (139)
WsAcknowledge ==
    /\ wsAckResult' = ErrNil
    /\ UNCHANGED <<client, wsNext, wsClosed, rpc, rclient, rdResult,
                   rdAttempted, wcResult, wcDials, wsWfcResult, amqpVars,
                   wsCloseCalled>>

\* ---------------------------------------------- Websocket.CloseAsync (144)
WsCloseAsync ==
    /\ wsCloseCalled' = TRUE
    /\ IF client # Nil
       THEN wsClosed' = wsClosed \cup {client} /\ client' = Nil
       ELSE UNCHANGED <<client, wsClosed>>
    /\ UNCHANGED <<wsNext, rpc, rclient, rdResult, rdAttempted,
                   wcResult, wcDials, wsWfcResult, wsAckResult, amqpVars>>

\* -------------------------------------------- Websocket.WaitForClose (154)
WsWaitForClose ==
    /\ wsWfcResult' = ErrNil
    /\ UNCHANGED <<client, wsNext, wsClosed, rpc, rclient, rdResult,
                   rdAttempted, wcResult, wcDials, wsAckResult, amqpVars,
                   wsCloseCalled>>

\* ------------------------------------------------------- Websocket system
NextWS ==
    \/ \E signOk, dialOk \in BOOLEAN : WsConnect(signOk, dialOk)
    \/ WsReadCall
    \/ WsGetWS
    \/ \E ok \in BOOLEAN : WsReadMessage(ok)
    \/ WsReadFail
    \/ WsAcknowledge
    \/ WsCloseAsync
    \/ WsWaitForClose

SpecWS == Init /\ [][NextWS]_vars

\* ================================================================= claims
closeRequested == closeCalls > 0

exited == pc \in {"deferStore", "deferClose", "done"}

\* the loop has just taken its first Transaction from the stream
FirstTaken == sent = 1 /\ pc = "publish" /\ part = 1 /\ attempts = <<>>

\* C1: at most one Result is ever written to the ResponseChan of a
\* Transaction the loop took, and, the broker confirming and the upstream
\* reading, exactly one is eventually written unless CloseAsync was called.
C1_ExactlyOneResult ==
    /\ [](Len(results) <= 1)
    /\ \A t \in Txs :
         (ts = t) ~> ((ts = t /\ Len(results) = 1) \/ closeRequested)

C1_Witness == ts = MaxTx /\ Len(results) = 1 /\ ~closeRequested

\* C2: the parts of a Transaction are published in part order; after a
\* Publish error on part k no later part is published and the Result that
\* is written is the error of part k; a success Result means every part
\* was published.
C2_PartsInOrderStopAtFailure ==
    /\ Len(attempts) <= nparts
    /\ \A i \in 1..Len(attempts) :
         /\ attempts[i][1] = i
         /\ attempts[i][2] = "err" =>
              /\ i = Len(attempts)
              /\ results # <<>> => results = <<PublishErr(ts, i)>>
    /\ results = <<ErrNil>> =>
         /\ Len(attempts) = nparts
         /\ \A i \in 1..Len(attempts) : attempts[i][2] = "ok"

C2_Witness ==
    /\ nparts = MaxParts
    /\ Len(attempts) = 1
    /\ attempts[1][2] = "err"
    /\ results = <<PublishErr(ts, 1)>>

\* C3: once CloseAsync has been called on an output whose loop was started,
\* the loop eventually closes closedChan, with no step of the broker or of
\* the upstream required.
C3_CloseLeadsToClosed == (closeRequested /\ loops > 0) ~> (closedChan > 0)

\* the loop was shut down with a Transaction in hand and no Result written
C3_Witness ==
    /\ closeRequested /\ closedChan = 1 /\ pc = "done"
    /\ ts > 0 /\ results = <<>>

\* C4: closeChan is closed at most once, and running only ever changes
\* from 1 to 0.
C4_CloseOnce ==
    /\ [](closeChan <= 1)
    /\ [][running' = running \/ (running = 1 /\ running' = 0)]_vars

\* two CloseAsync calls were made, closeChan was closed once, the loop is gone
C4_Witness ==
    /\ closeCalls >= 2 /\ closeChan = 1 /\ closedChan = 1
    /\ \A c \in Closers : cpc[c] = "idle"

\* C5: on both connectors WaitForClose returns nil only when the connector
\* has shut down (AMQP: closedChan closed and the session released;
\* Websocket: no session stored), and returns ErrTimeout while it has not.
C5_WaitForCloseMeansShutDown ==
    [][ /\ (\E timedOut \in BOOLEAN : WaitForClose(timedOut)) =>
             /\ ret'[2] = ErrNil =>
                  (closedChan > 0 /\ amqpChan = Nil /\ conn \notin opened)
             /\ closedChan = 0 => ret'[2] = ErrTimeout
        /\ WsWaitForClose =>
             /\ wsWfcResult' = ErrNil => client = Nil
             /\ client # Nil => wsWfcResult' = ErrTimeout ]_vars

C7_Original ==
    FirstTaken => (mReconErr = initFails /\ mReconSucc = 1)

\* C7 amended: however many times the first connection failed, neither
\* reconnect counter has been incremented when the loop takes its first
\* Transaction.
C7_InitialConnectNotCounted ==
    FirstTaken => (mReconErr = 0 /\ mReconSucc = 0)

C7_Witness == FirstTaken /\ initFails = 2

\* C8: a Read that returns no message returns ErrNotConnected and leaves no
\* session stored; with no session stored it returns without a transport read.
C8_ReadNotConnected ==
    /\ [](rpc \in {"readMessage", "clear"} => rclient # Nil)
    /\ [][ (rpc # "idle" /\ rpc' = "idle" /\ rdResult'[1] # "msg") =>
             (rdResult' = ErrNotConnected /\ client' = Nil) ]_vars
    /\ [][ (rpc = "getWS" /\ client = Nil /\ rpc' # rpc) =>
             (rpc' = "idle" /\ ~rdAttempted') ]_vars

\* a Read failed on the transport and dropped the session
C8_Witness ==
    /\ rpc = "idle" /\ rdResult = ErrNotConnected /\ rdAttempted
    /\ rclient # Nil /\ client = Nil

\* C9: Connect with a session stored returns nil, dials nothing and keeps
\* the session; with none stored it dials at most once, stores the session
\* exactly when it returns nil, and otherwise returns the error with no
\* session stored.
C9_ConnectIdempotent ==
    [][ (\E signOk, dialOk \in BOOLEAN : WsConnect(signOk, dialOk)) =>
          /\ wcDials' <= 1
          /\ client # Nil =>
               /\ client' = client /\ wsNext' = wsNext
               /\ wcResult' = ErrNil /\ wcDials' = 0
          /\ client = Nil =>
               /\ (client' # Nil) = (wcResult' = ErrNil)
               /\ wcResult' # WsSignErr => wcDials' = 1
               /\ wcResult' = ErrNil => (client' = wsNext' /\ wsNext' = wsNext + 1)
               /\ wcResult' # ErrNil =>
                    (wcResult' \in {WsSignErr, WsDialErr} /\ wsNext' = wsNext) ]_vars

\* Connect was called with a session stored
C9_Witness == client # Nil /\ wcResult = ErrNil /\ wcDials = 0

\* C10: after a negative confirmation of part k no later part is published,
\* the Result, if one is written, is ErrNoAck, and the session is kept: the
\* next Transaction is published on the channel part k was published on.
C10_NoAckKeepsSession ==
    /\ nacked > 0 =>
         /\ Len(attempts) = nacked
         /\ attempts[nacked][2] = "ok"
         /\ err = ErrNoAck
         /\ results # <<>> => results = <<ErrNoAck>>
         /\ results = <<>> => (pc = "respond" \/ exited)
         /\ pc # "done" =>
              /\ amqpChan = attempts[nacked][3]
              /\ conn = amqpChan
              /\ conn \in opened
    /\ (lastNackChan # Nil /\ attempts # <<>>) =>
         attempts[1][3] = lastNackChan

\* the Transaction after a nacked one has been published
C10_Witness == lastNackChan # Nil /\ attempts # <<>> /\ attempts[1][2] = "ok"

\* the last Publish call made for the Transaction in hand returned an error
lastPublishFailed ==
    attempts # <<>> /\ attempts[Len(attempts)][2] = "err"

\* C11: a Publish error drops the session (channel handle empty, connection
\* closed), the Result written is that error, the loop ends only on a close
\* request or a closed stream, and the next Transaction is taken only after
\* a later connect() has opened another channel.
C11_PublishErrorReconnects ==
    /\ [](lastPublishFailed =>
            /\ err = PublishErr(ts, Len(attempts))
            /\ pc \in {"respond", "check"} => (amqpChan = Nil /\ conn \notin opened)
            /\ results # <<>> => results = <<err>>
            /\ results = <<>> => (pc = "respond" \/ exited))
    /\ [](exited => (closeRequested \/ streamClosed))
    /\ [](pc \in {"recv", "publish", "confirm"} => amqpChan # Nil)
    /\ [][ (sent' = sent + 1 /\ lastPublishFailed) =>
             /\ results = <<err>>
             /\ amqpChan' = amqpChan
             /\ amqpChan > attempts[Len(attempts)][3] ]_vars

\* the Transaction after a failed Publish is in hand, on a reconnected session
C11_Witness == sent = MaxTx /\ pc = "publish" /\ mReconSucc > 0 /\ amqpChan = MaxConns

\* the session is the result of a connect() that returned nil: the channel
\* is open on the current connection and the confirmation channel is armed
\* on that channel
fullyConnected ==
    amqpChan # Nil /\ conn = amqpChan /\ amqpConfirmChan = amqpChan

\* C12: the loop waits for a Transaction, publishes and waits for a
\* confirmation only on a fully connected session, and leaves the reconnect
\* loop for the Transaction select only after a connect() that succeeded.
C12_ServesOnlyFullyConnected ==
    /\ [](pc \in {"recv", "publish", "confirm"} => fullyConnected)
    /\ [][ (pc = "recon" /\ pc' = "recv") => fullyConnected ]_vars

\* C13: closedChan is closed exactly once, by the deferred block of the loop
\* only, and when it is closed the connection and channel handles are both
\* empty, whatever conn.Close() returned.
C13_ClosedOnceSessionReleased ==
    /\ [](closedChan <= 1)
    /\ [][ closedChan' # closedChan =>
             (pc = "deferClose" /\ pc' = "done" /\ closedChan' = 1) ]_vars
    /\ [](pc = "done" => closedChan = 1)
    /\ [](closedChan > 0 => (conn = Nil /\ amqpChan = Nil))

\* C14: when the closeChan case is taken while the loop waits for a
\* confirmation or for the Result to be read, the loop exits and no Result
\* is written for that Transaction; in no other way does the loop leave a
\* Transaction it took without a Result.
C14_ResultOmittedOnlyOnClose ==
    /\ [][ (pc \in {"confirm", "respond"} /\ pc' = "deferStore") =>
             (closeChan > 0 /\ results = <<>> /\ results' = <<>>) ]_vars
    /\ [][ exited => results' = results ]_vars
    /\ []((ts > 0 /\ results = <<>>) =>
            \/ pc \in {"publish", "confirm", "respond"}
            \/ exited /\ closeChan > 0)

\* the loop has exited from the wait for the confirmation of a published part
C14_Witness ==
    /\ pc = "done" /\ ts > 0 /\ results = <<>>
    /\ Len(attempts) = part /\ attempts[part][2] = "ok" /\ nacked = 0

\* C15: the Transaction in hand is always the last one taken; the next one
\* is taken, in stream order, only after the Result of the one in hand has
\* been written; and a part is published only for the Transaction in hand
\* while it has no Result yet, so every Publish of a Transaction precedes
\* the taking of the next.
C15_OneInFlightInOrder ==
    /\ [](ts = sent)
    /\ [][ sent' # sent =>
             /\ sent' = sent + 1 /\ ts' = sent'
             /\ ts = 0 \/ Len(results) = 1 ]_vars
    /\ [][ (attempts' # attempts /\ attempts' # <<>>) =>
             /\ ts' = ts /\ results = <<>> /\ results' = <<>>
             /\ Len(attempts') = Len(attempts) + 1 ]_vars

\* the last Transaction is being published after the ones before it
C15_Witness ==
    /\ sent = MaxTx /\ pc = "confirm" /\ Len(attempts) = MaxParts
    /\ results = <<>>

\* a call of connect() by the loop
connectAttempt ==
    \/ \E o \in ConnectOutcomes : Connect0(o)
    \/ \E o \in ConnectOutcomes : Reconnect(o)

\* C16: once closeChan has been closed, the loop takes no Transaction from
\* the stream, calls connect() no more and publishes no part.
C16_NoWorkAfterCloseBroadcast ==
    [][ closeChan > 0 =>
          /\ sent' = sent
          /\ attempts' = attempts
          /\ ~connectAttempt ]_vars

\* C17: once Websocket.CloseAsync has been called no session is stored any
\* more, and no Read returns a message.
C17_ClosedIsTerminal ==
    /\ [](wsCloseCalled => client = Nil)
    /\ [][ wsCloseCalled =>
             ~(rpc # "idle" /\ rpc' = "idle" /\ rdResult'[1] = "msg") ]_vars

\* C18: at most one opened-and-not-yet-closed connection exists at any
\* moment, and none is left once closed-confirmation has fired.
C18_NoConnectionLeak ==
    /\ [](Cardinality(opened) <= 1)
    /\ [](closedChan > 0 => opened = {})

\* C19: a failed Read empties the stored handle only when it is the handle
\* that Read fetched, and every handle removed from the connector has had
\* Close called on it.
C19_ReadClearsOnlyOwnClosedHandle ==
    /\ [][ (rpc = "clear" /\ rpc' = "idle" /\ client # Nil /\ client' = Nil) =>
             client = rclient ]_vars
    /\ [][ (client # Nil /\ client' # client) => client \in wsClosed' ]_vars

\* C20: when the stream is closed while the loop waits for the next
\* Transaction, the loop exits without a close-request: running becomes 0,
\* the session is released (channel handle empty, Close called on the held
\* connection) and closedChan is closed exactly once; a CloseAsync called
\* after that leaves closeChan alone and closes nothing twice.
C20_StreamCloseExits ==
    /\ (pc = "recv" /\ streamClosed) ~> (closedChan = 1)
    /\ [][ (pc = "recv" /\ pc' # pc) =>
             \/ pc' = "publish" /\ ~streamClosed
             \/ pc' = "deferStore" /\ (streamClosed \/ closeChan > 0) ]_vars
    /\ [](pc \in {"deferClose", "done"} => running = 0)
    /\ [](pc = "done" => closedChan = 1 /\ amqpChan = Nil /\ conn \notin opened)
    /\ [](closedChan <= 1 /\ closeChan <= 1)
    /\ [][ (pc \in {"deferClose", "done"} /\ \A c \in Closers : cpc[c] = "idle") =>
             (closeChan' = closeChan /\ \A c \in Closers : cpc'[c] = "idle") ]_vars

C20_Witness ==
    /\ pc = "done" /\ streamClosed /\ closedChan = 1
    /\ closeChan = 0 /\ lateClose /\ running = 0
    /\ \A c \in Closers : cpc[c] = "idle"

====
